---- MODULE Spec2Model ----
(***************************************************************************)
(* The request cache of src/yew.rs: the map from keys to entries, the      *)
(* subscribe / unsubscribe / invalidate operations, and the fetch tasks    *)
(* that subscribe spawns, with the retry delay of Entry::delay_update.     *)
(***************************************************************************)
EXTENDS Integers, Sequences, FiniteSets, Bags, TLC

\* ---------------------------------------------------------------- bounds
MaxFetches == 3       \* fetches one run of Spec starts for its key
BackoffFetches == 11  \* fetches one run of SpecBackoff starts for its key

Keys == {1, 2, 3}     \* request keys of one concrete key type, in key order
Subs == {1, 2}        \* subscriber handles (state setters)
Mutations == {1, 2}   \* mutation events
Payloads == {1, 2}    \* payloads a send can return

\* ------------------------------------------------------------- constants
DELAY_INITIAL_MS == 100

\* Option<T>: None is the empty sequence, Some(x) the sequence of x alone
None == <<>>

Some(x) == <<x>>

VARIABLES
    entries,   \* BTreeCache.entries: a function from the keys present to Entry
    tasks,     \* bag of the fetch tasks spawned by Cache::fetch and not finished
    started,   \* per key, the number of fetch tasks spawned so far
    streak,    \* per key, the number of failures since the last success
    sent,      \* the setter.set calls made by the last operation, in order
    last,      \* the last operation, its arguments and the task it touched
    prev,      \* the entries as they were before the last operation
    limit,     \* what the callers of this run do at most: fetches[k] fetches
               \* started for key k, tasks fetch tasks outstanding at once,
               \* and the handles that subscribe at all
    probe      \* three type-erased keys and what eq and cmp returned for
               \* them; None in the runs of the cache

vars == <<entries, tasks, started, streak, sent, last, prev, limit, probe>>

\* ------------------------------------------------------------ value.rs
\* Value::default
ValueDefault == [valid |-> FALSE, data |-> None]

\* Value::new
ValueNew(data) == [valid |-> TRUE, data |-> Some(data)]

\* a Value::invalidate that drops the payload with the flag
ValueInvalidateDrops(value) == ValueDefault

\* Value::invalidate
ValueInvalidate(value) == [value EXCEPT !.valid = FALSE]

\* the values a Value<Rc<payload>> can take
Values == {ValueDefault} \cup [valid : BOOLEAN, data : {Some(p) : p \in Payloads}]

\* -------------------------------------------------------------- key.rs
\* two concrete key types T: u8, and std::cmp::Reverse<u8>, whose Ord is
\* the reverse of u8's
KeyTypes == {"u8", "Reverse<u8>"}

\* the values of a key of either type
KeyValues == {0, 1, 2}

\* a key as a &dyn CacheKey or as the &dyn Any that CacheKey::any returns:
\* its concrete type and its value
TypedKeys == [type : KeyTypes, value : KeyValues]

\* Any::type_id: one identifier for each type, in an order that has nothing
\* to do with the types' names
TypeIdOf(type) == IF type = "u8" THEN 2 ELSE 1

\* Ord::cmp of the integers
Cmp(x, y) == IF x < y THEN "Less" ELSE IF x = y THEN "Equal" ELSE "Greater"

\* T::cmp, the concrete type's own ordering
TypeCmp(type, x, y) == IF type = "Reverse<u8>" THEN Cmp(y, x) ELSE Cmp(x, y)

\* T::eq, the concrete type's own equality
TypeEq(type, x, y) == x = y

\* CacheKey::any
AsAny(key) == key

\* <dyn Any>::downcast_ref::<T>
DowncastRef(type, other) ==
    IF other.type = type THEN Some(other.value) ELSE None

\* an any_eq that compares the payloads whatever the types
AnyEqPayload(self, other) == self.value = other.value

\* CacheKey::any_eq
AnyEq(self, other) ==
    LET down == DowncastRef(self.type, other)
    IN  IF down # None THEN TypeEq(self.type, self.value, down[1]) ELSE FALSE

\* an any_ord that never looks at the type identifiers
AnyOrdPayload(self, other) == TypeCmp(self.type, self.value, other.value)

\* CacheKey::any_ord
AnyOrd(self, other) ==
    LET ordering == Cmp(TypeIdOf(self.type), TypeIdOf(other.type))
    IN  IF ordering = "Equal"
        THEN TypeCmp(self.type, self.value, DowncastRef(self.type, other)[1])
        ELSE ordering

\* PartialEq for dyn CacheKey
KeyEq(self, other) == AnyEq(self, AsAny(other))

\* Ord for dyn CacheKey
KeyCmp(self, other) == AnyOrd(self, AsAny(other))

\* PartialOrd for dyn CacheKey
KeyPartialCmp(self, other) == Some(AnyOrd(self, AsAny(other)))

\* ------------------------------------------------------- invalidate.rs
\* Invalidatable::invalidated_by, as implemented by the key type of the
\* model: key 1 keeps the default (every mutation invalidates it), key k > 1
\* narrows it to the mutation k - 1.
InvalidatedBy(key, mutation) == key = 1 \/ key = mutation + 1

\* ------------------------------------------------------- Duration
\* std::time::Duration: whole seconds and nanoseconds below one second
Duration(secs, nanos) == [secs |-> secs, nanos |-> nanos]

DurationNormal(secs, nanos) ==
    Duration(secs + nanos \div 1000000000, nanos % 1000000000)

\* Duration::from_millis(100)
DELAY_INITIAL == Duration(0, DELAY_INITIAL_MS * 1000000)

\* a delay_update that doubles the delay
DelayDoubled(current) ==
    {Duration(2 * current.secs + (2 * current.nanos) \div 1000000000,
              (2 * current.nanos) % 1000000000)}

\* Duration::from_secs_f64(current.as_secs_f64() * DELAY_MULTIPLIER) with
\* DELAY_MULTIPLIER = 1.5: the product rounded to a whole nanosecond.  When
\* the exact product ends in half a nanosecond the rounding error of the
\* f64 product decides which neighbour is taken, so both are possible.
DelayMultiply(current) ==
    LET secs  == current.secs + current.secs \div 2
        carry == IF current.secs % 2 = 1 THEN 500000000 ELSE 0
        nanos == current.nanos + current.nanos \div 2 + carry
    IN  IF current.nanos % 2 = 0
        THEN {DurationNormal(secs, nanos)}
        ELSE {DurationNormal(secs, nanos), DurationNormal(secs, nanos + 1)}

\* ------------------------------------------------------------ Entry
\* Entry::default
EntryDefault ==
    [delay |-> None, progress |-> FALSE, value |-> ValueDefault,
     subscriptions |-> <<>>]

Range(seq) == {seq[i] : i \in DOMAIN seq}

\* Entry::broadcast: one setter.set(self.value) per element of the list
Broadcast(key, entry) ==
    [i \in DOMAIN entry.subscriptions |->
        [key |-> key, to |-> entry.subscriptions[i], value |-> entry.value,
         by |-> "broadcast"]]

\* an Entry::subscribe that pushes without looking for the setter
EntrySubscribeAgain(entry, setter) ==
    [entry EXCEPT !.subscriptions = Append(@, setter)]

\* Entry::subscribe
EntrySubscribe(entry, setter) ==
    IF \E i \in DOMAIN entry.subscriptions : entry.subscriptions[i] = setter
    THEN entry
    ELSE [entry EXCEPT !.subscriptions = Append(@, setter)]

\* an Entry::unsubscribe whose retain keeps the wrong handles
EntryUnsubscribeOthers(entry, setter) ==
    [entry EXCEPT !.subscriptions = SelectSeq(@, LAMBDA s : s = setter)]

\* Entry::unsubscribe
EntryUnsubscribe(entry, setter) ==
    [entry EXCEPT !.subscriptions = SelectSeq(@, LAMBDA s : s # setter)]

\* Entry::delay_update: the delays the entry can hold afterwards
DelayUpdate(delay) ==
    IF delay = None THEN {Some(DELAY_INITIAL)}
    ELSE {Some(d) : d \in DelayMultiply(delay[1])}

\* a delay_reset that leaves the delay
DelayKept(entry) == entry

\* Entry::delay_reset
DelayReset(entry) == [entry EXCEPT !.delay = None]

\* a needs_fetch that does not look at the progress flag
NeedsFetchInvalid(entry) == ~entry.value.valid

\* Entry::needs_fetch
NeedsFetch(entry) == ~entry.value.valid /\ ~entry.progress

\* ------------------------------------------------------------ Cache
\* the record of an operation: its name, the key, handle, mutation or
\* payload it was called with (0 where it has none), and the fetch task it
\* spawned, woke or finished (None where it touched none)
Op(op, key, who, mutation, data, task) ==
    [op |-> op, key |-> key, who |-> who, mutation |-> mutation,
     data |-> data, task |-> task]

\* a task that sends at once, whatever delay it was given
TaskNoSleep(key, delay) ==
    [key |-> key, delay |-> delay, phase |-> "send", invalidated |-> FALSE]

\* the task Cache::fetch spawns: it sleeps when a delay is given, then
\* sends.  invalidated is history: whether the key's entry was invalidated
\* since the task was spawned.
Task(key, delay) ==
    [key |-> key, delay |-> delay,
     phase |-> IF delay = None THEN "send" ELSE "sleep",
     invalidated |-> FALSE]

\* Cache::fetch
Fetch(key, delay) ==
    /\ started[key] < limit.fetches[key]
    /\ BagCardinality(tasks) < limit.tasks
    /\ tasks' = tasks (+) SetToBag({Task(key, delay)})
    /\ started' = [started EXCEPT ![key] = @ + 1]

NoFetch == UNCHANGED <<tasks, started>>

\* the tasks after the entries of the keys in `hit` were invalidated
TasksInvalidated(hit) ==
    LET mark(t) == IF t.key \in hit THEN [t EXCEPT !.invalidated = TRUE] ELSE t
        fresh(t) == [t EXCEPT !.invalidated = FALSE]
    IN  [t \in {mark(u) : u \in BagToSet(tasks)} |->
           IF t.key \in hit
           THEN CopiesIn(t, tasks) + CopiesIn(fresh(t), tasks)
           ELSE CopiesIn(t, tasks)]

\* Cache::subscribe, called with the handle (setter `setter`, current state
\* `current`) of a component
Subscribe(key, setter, current) ==
    /\ setter \in limit.handles
    /\ prev' = entries
    /\ UNCHANGED <<streak, limit, probe>>
    /\ IF key \in DOMAIN entries
       THEN LET entry == EntrySubscribe(entries[key], setter)
            IN  /\ entries' = [entries EXCEPT ![key] = entry]
                /\ sent' = IF entry.value # current
                           THEN <<[key |-> key, to |-> setter,
                                   value |-> entry.value, by |-> "subscribe"]>>
                           ELSE <<>>
                /\ IF NeedsFetch(entry)
                   THEN /\ Fetch(key, entry.delay)
                        /\ last' = Op("subscribe", key, setter, 0, 0,
                                      Some(Task(key, entry.delay)))
                   ELSE /\ NoFetch
                        /\ last' = Op("subscribe", key, setter, 0, 0, None)
       ELSE /\ entries' = [k \in DOMAIN entries \cup {key} |->
                             IF k = key
                             THEN [EntryDefault EXCEPT
                                     !.progress = TRUE,
                                     !.subscriptions = <<setter>>]
                             ELSE entries[k]]
            /\ sent' = <<>>
            /\ Fetch(key, None)
            /\ last' = Op("subscribe", key, setter, 0, 0,
                          Some(Task(key, None)))

\* the spawned task: sleep(delay).await returns
Wake(task) ==
    /\ BagIn(task, tasks)
    /\ task.phase = "sleep"
    /\ tasks' = (tasks (-) SetToBag({task}))
                  (+) SetToBag({[task EXCEPT !.phase = "send"]})
    /\ sent' = <<>>
    /\ last' = Op("wake", task.key, 0, 0, 0, Some(task))
    /\ prev' = entries
    /\ UNCHANGED <<entries, started, streak, limit, probe>>

\* a Cache::cache that stores the payload and leaves the validity flag
CacheEntryKeepsFlag(entry, data) ==
    [DelayReset(entry) EXCEPT
       !.value = [valid |-> entry.value.valid, data |-> Some(data)],
       !.progress = FALSE]

\* Cache::cache: the entry after a send returned Ok(value)
CacheEntry(entry, data) ==
    [DelayReset(entry) EXCEPT !.value = ValueNew(data), !.progress = FALSE]

\* the spawned task: data.send().await returns Ok(data); Cache::cache
SendOk(task, data) ==
    /\ BagIn(task, tasks)
    /\ task.phase = "send"
    /\ tasks' = tasks (-) SetToBag({task})
    /\ IF task.key \in DOMAIN entries
       THEN LET entry == CacheEntry(entries[task.key], data)
            IN  /\ entries' = [entries EXCEPT ![task.key] = entry]
                /\ sent' = Broadcast(task.key, entry)
       ELSE UNCHANGED entries /\ sent' = <<>>
    /\ streak' = [streak EXCEPT ![task.key] = 0]
    /\ last' = Op("cache", task.key, 0, 0, data, Some(task))
    /\ prev' = entries
    /\ UNCHANGED <<started, limit, probe>>

\* a Cache::failure that stores the failure as an empty value
FailureEntryClears(entry, delay) ==
    [entry EXCEPT !.delay = delay, !.progress = FALSE, !.value = ValueDefault]

\* a Cache::failure that leaves the progress flag
FailureEntryBusy(entry, delay) == [entry EXCEPT !.delay = delay]

\* Cache::failure: the entry after a send returned Err(error)
FailureEntry(entry, delay) ==
    [entry EXCEPT !.delay = delay, !.progress = FALSE]

\* a failure that schedules the retry itself
SendErrRetries(task) ==
    /\ BagIn(task, tasks)
    /\ task.phase = "send"
    /\ IF task.key \in DOMAIN entries
       THEN \E delay \in DelayUpdate(entries[task.key].delay) :
              LET entry == FailureEntry(entries[task.key], delay)
              IN  /\ entries' = [entries EXCEPT ![task.key] = entry]
                  /\ sent' = Broadcast(task.key, entry)
                  /\ IF started[task.key] < limit.fetches[task.key]
                     THEN /\ tasks' = (tasks (-) SetToBag({task}))
                                        (+) SetToBag({Task(task.key, delay)})
                          /\ started' = [started EXCEPT ![task.key] = @ + 1]
                     ELSE /\ tasks' = tasks (-) SetToBag({task})
                          /\ UNCHANGED started
       ELSE /\ UNCHANGED <<entries, started>>
            /\ sent' = <<>>
            /\ tasks' = tasks (-) SetToBag({task})
    /\ streak' = [streak EXCEPT ![task.key] = @ + 1]
    /\ last' = Op("failure", task.key, 0, 0, 0, Some(task))
    /\ prev' = entries
    /\ UNCHANGED <<limit, probe>>

\* the spawned task: data.send().await returns Err(error); Cache::failure
SendErr(task) ==
    /\ BagIn(task, tasks)
    /\ task.phase = "send"
    /\ tasks' = tasks (-) SetToBag({task})
    /\ IF task.key \in DOMAIN entries
       THEN \E delay \in DelayUpdate(entries[task.key].delay) :
              LET entry == FailureEntry(entries[task.key], delay)
              IN  /\ entries' = [entries EXCEPT ![task.key] = entry]
                  /\ sent' = Broadcast(task.key, entry)
       ELSE UNCHANGED entries /\ sent' = <<>>
    /\ streak' = [streak EXCEPT ![task.key] = @ + 1]
    /\ last' = Op("failure", task.key, 0, 0, 0, Some(task))
    /\ prev' = entries
    /\ UNCHANGED <<started, limit, probe>>

\* a Cache::unsubscribe that drops the entry with its last subscriber
UnsubscribeEvicts(key, setter) ==
    /\ IF key \in DOMAIN entries
       THEN IF EntryUnsubscribe(entries[key], setter).subscriptions = <<>>
            THEN entries' = [k \in DOMAIN entries \ {key} |-> entries[k]]
            ELSE entries' = [entries EXCEPT
                               ![key] = EntryUnsubscribe(@, setter)]
       ELSE UNCHANGED entries
    /\ sent' = <<>>
    /\ last' = Op("unsubscribe", key, setter, 0, 0, None)
    /\ prev' = entries
    /\ UNCHANGED <<tasks, started, streak, limit, probe>>

\* Cache::unsubscribe
Unsubscribe(key, setter) ==
    /\ IF key \in DOMAIN entries
       THEN entries' = [entries EXCEPT ![key] = EntryUnsubscribe(@, setter)]
       ELSE UNCHANGED entries
    /\ sent' = <<>>
    /\ last' = Op("unsubscribe", key, setter, 0, 0, None)
    /\ prev' = entries
    /\ UNCHANGED <<tasks, started, streak, limit, probe>>

\* an invalidation that also clears the progress flag
InvalidateEntryIdle(entry) ==
    [entry EXCEPT !.value = ValueInvalidate(@), !.progress = FALSE]

\* the closure of Cache::invalidate, invalidate_key and invalidate_all
InvalidateEntry(entry) == [entry EXCEPT !.value = ValueInvalidate(@)]

\* the keys in the order of Ord for dyn CacheKey (one type: the key's own)
KeyOrder == <<1, 2, 3>>

\* the setter.set calls of a walk over the first `upto` keys, in key order
RECURSIVE BroadcastAll(_, _, _)
BroadcastAll(map, hit, upto) ==
    IF upto = 0 THEN <<>>
    ELSE LET key == KeyOrder[upto]
         IN  BroadcastAll(map, hit, upto - 1)
               \o (IF key \in DOMAIN map /\ key \in hit
                   THEN Broadcast(key, map[key]) ELSE <<>>)

\* BTreeCache::mutate_all with a closure that invalidates and broadcasts the
\* entries whose key is in `hit`
MutateAll(hit) ==
    /\ entries' = [k \in DOMAIN entries |->
                     IF k \in hit THEN InvalidateEntry(entries[k])
                     ELSE entries[k]]
    /\ sent' = BroadcastAll(entries', hit, Len(KeyOrder))
    /\ tasks' = TasksInvalidated(hit \cap DOMAIN entries)
    /\ prev' = entries

\* an invalidate that does not ask the keys
InvalidateHitAny(mutation) == Keys

\* the keys Cache::invalidate invalidates
InvalidateHit(mutation) == {k \in Keys : InvalidatedBy(k, mutation)}

\* Cache::invalidate
Invalidate(mutation) ==
    /\ MutateAll(InvalidateHit(mutation))
    /\ last' = Op("invalidate", 0, 0, mutation, 0, None)
    /\ UNCHANGED <<started, streak, limit, probe>>

\* Cache::invalidate_key
InvalidateKey(key) ==
    /\ IF key \in DOMAIN entries
       THEN LET entry == InvalidateEntry(entries[key])
            IN  /\ entries' = [entries EXCEPT ![key] = entry]
                /\ sent' = Broadcast(key, entry)
       ELSE UNCHANGED entries /\ sent' = <<>>
    /\ tasks' = TasksInvalidated({key} \cap DOMAIN entries)
    /\ last' = Op("invalidate_key", key, 0, 0, 0, None)
    /\ prev' = entries
    /\ UNCHANGED <<started, streak, limit, probe>>

\* an invalidate_all that asks the keys about the first mutation
InvalidateAllHitAsked == InvalidateHit(1)

\* the keys Cache::invalidate_all invalidates
InvalidateAllHit == Keys

\* Cache::invalidate_all
InvalidateAll ==
    /\ MutateAll(InvalidateAllHit)
    /\ last' = Op("invalidate_all", 0, 0, 0, 0, None)
    /\ UNCHANGED <<started, streak, limit, probe>>

\* ------------------------------------------------------ specifications
\* Cache::default: no entries, nothing spawned
InitCache ==
    /\ entries = << >>
    /\ tasks = EmptyBag
    /\ started = [k \in Keys |-> 0]
    /\ streak = [k \in Keys |-> 0]
    /\ sent = <<>>
    /\ last = Op("new", 0, 0, 0, 0, None)
    /\ prev = << >>

\* the runs of one key: every handle may subscribe to it, and up to
\* MaxFetches fetches are started for it, any number of them at once
Init ==
    /\ InitCache
    /\ \E key \in Keys :
         limit = [fetches |-> [k \in Keys |-> IF k = key THEN MaxFetches ELSE 0],
                  tasks |-> MaxFetches, handles |-> Subs]
    /\ probe = None

\* the runs of all keys: one handle subscribes, fetches run one at a time,
\* one for each key and a second one for key 1
InitMany ==
    /\ InitCache
    /\ limit = [fetches |-> [k \in Keys |-> IF k = 1 THEN 2 ELSE 1],
                tasks |-> 1, handles |-> {1}]
    /\ probe = None

\* the runs of key 1 with up to BackoffFetches fetches, one at a time
InitBackoff ==
    /\ InitCache
    /\ limit = [fetches |-> [k \in Keys |-> IF k = 1 THEN BackoffFetches ELSE 0],
                tasks |-> 1, handles |-> {1}]
    /\ probe = None

\* three keys of any types, and nothing compared yet; the cache is not used
InitKeys ==
    /\ InitCache
    /\ limit = [fetches |-> [k \in Keys |-> 0], tasks |-> 0, handles |-> {}]
    /\ \E a \in TypedKeys, b \in TypedKeys, c \in TypedKeys :
         probe = [a |-> a, b |-> b, c |-> c, eq |-> None, cmp |-> None,
                  partial |-> None]

\* a == b, b == a, b == c and a == c of the boxed keys
Equals ==
    /\ probe.eq = None
    /\ probe' = [probe EXCEPT !.eq = Some([ab |-> KeyEq(probe.a, probe.b),
                                          ba |-> KeyEq(probe.b, probe.a),
                                          bc |-> KeyEq(probe.b, probe.c),
                                          ac |-> KeyEq(probe.a, probe.c)])]
    /\ UNCHANGED <<entries, tasks, started, streak, sent, last, prev, limit>>

\* a.cmp(b), b.cmp(a), b.cmp(c) and a.cmp(c) of the boxed keys
Compare ==
    /\ probe.cmp = None
    /\ probe' = [probe EXCEPT !.cmp = Some([ab |-> KeyCmp(probe.a, probe.b),
                                           ba |-> KeyCmp(probe.b, probe.a),
                                           bc |-> KeyCmp(probe.b, probe.c),
                                           ac |-> KeyCmp(probe.a, probe.c)])]
    /\ UNCHANGED <<entries, tasks, started, streak, sent, last, prev, limit>>

\* a.partial_cmp(b) of the boxed keys
PartialCompare ==
    /\ probe.partial = None
    /\ probe' = [probe EXCEPT
                   !.partial = Some(KeyPartialCmp(probe.a, probe.b))]
    /\ UNCHANGED <<entries, tasks, started, streak, sent, last, prev, limit>>

NextKeys == Equals \/ Compare \/ PartialCompare

TaskSet == BagToSet(tasks)

Next ==
    \/ \E key \in Keys, setter \in Subs, current \in Values :
         Subscribe(key, setter, current)
    \/ \E task \in TaskSet : Wake(task)
    \/ \E task \in TaskSet, data \in Payloads : SendOk(task, data)
    \/ \E task \in TaskSet : SendErr(task)
    \/ \E key \in Keys, setter \in Subs : Unsubscribe(key, setter)
    \/ \E mutation \in Mutations : Invalidate(mutation)
    \/ \E key \in Keys : InvalidateKey(key)
    \/ InvalidateAll

Spec == Init /\ [][Next]_vars

SpecMany == InitMany /\ [][Next]_vars

SpecBackoff == InitBackoff /\ [][Next]_vars

SpecKeys == InitKeys /\ [][NextKeys]_vars

\* a step of a spawned fetch task of `key`: its sleep ends, or its send
\* returns
TaskStep(key) ==
    \E task \in TaskSet :
        /\ task.key = key
        /\ \/ Wake(task)
           \/ SendErr(task)
           \/ \E data \in Payloads : SendOk(task, data)

\* the cache when the executor of spawn_local runs every spawned task and
\* every sleep and every send returns
SpecFair == Init /\ [][Next]_vars /\ \A key \in Keys : WF_vars(TaskStep(key))

\* the structure of the state
TypeOK ==
    /\ DOMAIN entries \subseteq Keys
    /\ \A k \in DOMAIN entries :
         /\ entries[k].progress \in BOOLEAN
         /\ entries[k].value \in Values
         /\ Range(entries[k].subscriptions) \subseteq Subs
    /\ IsABag(tasks)
    /\ \A k \in Keys : started[k] <= limit.fetches[k]


\* ------------------------------------------------------------ properties
\* the number of fetch tasks of `key` spawned and not finished
Outstanding(key) ==
    LET of == {t \in BagToSet(tasks) : t.key = key}
        RECURSIVE Count(_)
        Count(set) == IF set = {} THEN 0
                      ELSE LET t == CHOOSE t \in set : TRUE
                           IN  CopiesIn(t, tasks) + Count(set \ {t})
    IN  Count(of)

\* the number of fetch tasks of `key` that have finished
Completed(key) == started[key] - Outstanding(key)

\* the setter.set calls of the last operation's broadcast for `key`
BroadcastOf(key) ==
    SelectSeq(sent, LAMBDA d : d.key = key /\ d.by = "broadcast")

\* the last operation broadcast `value` for `key` to the handles of
\* `subscriptions`, each once, and to nobody else
BroadcastTo(key, subscriptions, value) ==
    /\ Len(BroadcastOf(key)) = Len(subscriptions)
    /\ \A i \in DOMAIN subscriptions :
         /\ BroadcastOf(key)[i].to = subscriptions[i]
         /\ BroadcastOf(key)[i].value = value

\* C1: at most one fetch task (sleeping its delay or awaiting send) is
\* outstanding for each key in every reachable state.
OneFetchPerKey == \A key \in Keys : Outstanding(key) <= 1

\* C2: while the first fetch of a key has not resolved, exactly one fetch
\* has been started for it however many handles subscribed; a handle that
\* subscribes is in the entry's list and stays there unless it unsubscribes;
\* and the completion of that fetch delivers the entry's value to every
\* handle in the list, so to both of two handles that subscribed before it.
FirstFetchShared ==
    \A key \in DOMAIN entries :
        /\ Completed(key) = 0 => started[key] = 1 /\ Outstanding(key) = 1
        /\ last.op = "subscribe" /\ last.key = key
             => last.who \in Range(entries[key].subscriptions)
        /\ last.op # "unsubscribe" /\ key \in DOMAIN prev
             => Range(prev[key].subscriptions)
                  \subseteq Range(entries[key].subscriptions)
        /\ last.op \in {"cache", "failure"} /\ last.key = key
             /\ Completed(key) = 1
             => /\ started[key] = 1
                /\ BroadcastTo(key, prev[key].subscriptions, entries[key].value)

\* C2 happens: the only fetch of a key succeeded and its value was delivered
\* to two distinct handles
FirstFetchSharedWitness ==
    /\ last.op = "cache"
    /\ started[last.key] = 1
    /\ Len(sent) = 2
    /\ sent[1].to # sent[2].to
    /\ sent[1].value = ValueNew(last.data)
    /\ sent[2].value = ValueNew(last.data)

\* C3 as claimed: invalidate_all on three entries, two of whose keys are
\* invalidated by a mutation and one not, invalidates exactly those two and
\* leaves the third as it was.
InvalidateAllSparesUnmatched ==
    last.op = "invalidate_all" /\ Cardinality(DOMAIN prev) = 3
    => \A mutation \in Mutations :
         Cardinality({k \in DOMAIN prev : InvalidatedBy(k, mutation)}) = 2
         => \A k \in DOMAIN prev :
              IF InvalidatedBy(k, mutation)
              THEN ~entries[k].value.valid
              ELSE entries[k] = prev[k]

\* C3 as amended: invalidate_all on three entries leaves all three with
\* valid = false, whatever their keys return from invalidated_by, and
\* changes nothing else of any entry.
InvalidateAllInvalidatesAll ==
    last.op = "invalidate_all" /\ Cardinality(DOMAIN prev) = 3
    => /\ DOMAIN entries = DOMAIN prev
       /\ \A k \in DOMAIN prev :
            entries[k] = [prev[k] EXCEPT !.value.valid = FALSE]

\* C3 happens: invalidate_all ran on three entries and invalidated a valid
\* entry whose key a mutation does not invalidate
InvalidateAllWitness ==
    /\ last.op = "invalidate_all"
    /\ Cardinality(DOMAIN prev) = 3
    /\ \E k \in DOMAIN prev, mutation \in Mutations :
         /\ ~InvalidatedBy(k, mutation)
         /\ prev[k].value.valid
         /\ ~entries[k].value.valid

\* C4: invalidate(mutation) marks invalid and broadcasts exactly the entries
\* whose key is invalidated by the mutation; every other entry keeps its
\* value, validity, progress, delay and subscribers, and gets no broadcast.
InvalidateMarksMatching ==
    last.op = "invalidate"
    => /\ DOMAIN entries = DOMAIN prev
       /\ \A d \in Range(sent) : d.by = "broadcast"
       /\ \A k \in DOMAIN prev :
            IF InvalidatedBy(k, last.mutation)
            THEN /\ entries[k] = [prev[k] EXCEPT !.value.valid = FALSE]
                 /\ BroadcastTo(k, prev[k].subscriptions, entries[k].value)
            ELSE /\ entries[k] = prev[k]
                 /\ BroadcastOf(k) = <<>>

\* C4 happens: an invalidate met a valid subscribed entry it invalidates and
\* a valid subscribed entry it does not
InvalidateWitness ==
    /\ last.op = "invalidate"
    /\ \E hit \in DOMAIN prev, miss \in DOMAIN prev :
         /\ InvalidatedBy(hit, last.mutation)
         /\ ~InvalidatedBy(miss, last.mutation)
         /\ prev[hit].value.valid /\ prev[hit].subscriptions # <<>>
         /\ prev[miss].value.valid /\ prev[miss].subscriptions # <<>>

\* the entries the last operation, an invalidation, applies to
Affected(key) ==
    CASE last.op = "invalidate" -> InvalidatedBy(key, last.mutation)
      [] last.op = "invalidate_key" -> key = last.key
      [] last.op = "invalidate_all" -> TRUE
      [] OTHER -> FALSE

\* C5: an invalidation (invalidate, invalidate_key, invalidate_all) leaves
\* the payload of an entry it affects as it was and sets only valid to
\* false; progress, delay and subscribers are unchanged.
InvalidationKeepsPayload ==
    \A k \in DOMAIN prev :
        Affected(k)
        => /\ entries[k].value.data = prev[k].value.data
           /\ ~entries[k].value.valid
           /\ entries[k].progress = prev[k].progress
           /\ entries[k].delay = prev[k].delay
           /\ entries[k].subscriptions = prev[k].subscriptions

\* C5 happens: an invalidation hit a valid, subscribed entry with a payload
InvalidationKeepsPayloadWitness ==
    \E k \in DOMAIN prev :
        /\ Affected(k)
        /\ prev[k].value = ValueNew(2)
        /\ prev[k].subscriptions # <<>>
        /\ entries[k].value.data = Some(2)


\* a Duration and a half of it, rounded down to a whole nanosecond
ThreeHalves(d) ==
    LET nanos == d.nanos + d.nanos \div 2 + (d.secs % 2) * 500000000
    IN  Duration(d.secs + d.secs \div 2 + nanos \div 1000000000,
                 nanos % 1000000000)

\* d0 * r^(n-1) for d0 = 100 ms and r = 1.5 as a Duration, or None when it
\* is no whole number of nanoseconds
RECURSIVE IdealDelay(_)
IdealDelay(n) ==
    IF n = 1 THEN Some(Duration(0, 100000000))
    ELSE LET before == IdealDelay(n - 1)
         IN  IF before = None \/ before[1].nanos % 2 = 1 THEN None
             ELSE Some(ThreeHalves(before[1]))

DurationLess(a, b) ==
    a.secs < b.secs \/ (a.secs = b.secs /\ a.nanos < b.nanos)

\* b is one and a half times a, rounded to a neighbouring whole nanosecond
RoundedThreeHalves(a, b) ==
    \/ b = ThreeHalves(a)
    \/ /\ a.nanos % 2 = 1
       /\ b = DurationNormal(ThreeHalves(a).secs, ThreeHalves(a).nanos + 1)

\* C6 as claimed: after n consecutive failures of a key the delay is
\* d0 * r^(n-1), and each failure after the first strictly increases it.
BackoffExact ==
    \A k \in DOMAIN entries :
        streak[k] >= 1
        => /\ entries[k].delay = IdealDelay(streak[k])
           /\ last.op = "failure" /\ last.key = k /\ streak[k] >= 2
                => DurationLess(prev[k].delay[1], entries[k].delay[1])

\* C6 as amended: the first of n consecutive failures sets the delay to d0,
\* each further one to one and a half times the delay before it rounded to
\* a whole nanosecond, which strictly increases it; the delay is
\* d0 * r^(n-1) whenever that is a whole number of nanoseconds (n <= 9).
BackoffRounded ==
    \A k \in DOMAIN entries :
        streak[k] >= 1
        => /\ entries[k].delay # None
           /\ IdealDelay(streak[k]) # None
                => entries[k].delay = IdealDelay(streak[k])
           /\ streak[k] <= 9 => IdealDelay(streak[k]) # None
           /\ last.op = "failure" /\ last.key = k
                => IF streak[k] = 1
                   THEN entries[k].delay = Some(Duration(0, 100000000))
                   ELSE /\ prev[k].delay # None
                        /\ DurationLess(prev[k].delay[1], entries[k].delay[1])
                        /\ RoundedThreeHalves(prev[k].delay[1],
                                              entries[k].delay[1])

\* C6 happens: a tenth consecutive failure, where d0 * r^9 is no whole
\* number of nanoseconds
BackoffWitness ==
    /\ last.op = "failure"
    /\ streak[last.key] = 10
    /\ IdealDelay(10) = None
    /\ entries[last.key].delay[1].secs = 3

\* C7: a success sets the delay to none whatever had accumulated and leaves
\* the entry valid; with no failure since the last success the delay is
\* none, and the first failure after a success sets it to d0 again.
SuccessResetsDelay ==
    \A k \in DOMAIN entries :
        /\ last.op = "cache" /\ last.key = k
             => /\ entries[k].delay = None
                /\ entries[k].value.valid
        /\ streak[k] = 0 => entries[k].delay = None
        /\ last.op = "failure" /\ last.key = k /\ streak[k] = 1
             => entries[k].delay = Some(Duration(0, 100000000))

\* C7 happens: a success met a delay left by an earlier failure
SuccessResetsDelayWitness ==
    /\ last.op = "cache"
    /\ prev[last.key].delay # None
    /\ entries[last.key].delay = None
    /\ entries[last.key].value.valid

\* C8: when a fetch succeeds whose entry was invalidated while the fetch was
\* outstanding, the fetched payload is stored with valid = true and
\* broadcast to every current subscriber.
FreshValueWins ==
    last.op = "cache" /\ last.task[1].invalidated
    => /\ entries[last.key].value = [valid |-> TRUE, data |-> Some(last.data)]
       /\ BroadcastTo(last.key, entries[last.key].subscriptions,
                      [valid |-> TRUE, data |-> Some(last.data)])

\* C8 happens: such a success replaced another payload in a subscribed entry
FreshValueWinsWitness ==
    /\ last.op = "cache"
    /\ last.task[1].invalidated
    /\ prev[last.key].value.data \notin {None, Some(last.data)}
    /\ entries[last.key].subscriptions # <<>>

\* the last operation started a fetch for `key`
FetchStarted(key) ==
    last.op = "subscribe" /\ last.key = key /\ last.task # None

\* C9: while an entry's progress flag is true, invalidated or not, one
\* fetch is outstanding for its key, no operation starts another, and the
\* flag stays true until that fetch completes.
NoFetchWhileInProgress ==
    /\ \A k \in DOMAIN entries :
         entries[k].progress => Outstanding(k) = 1
    /\ \A k \in DOMAIN prev :
         prev[k].progress
         => /\ ~FetchStarted(k)
            /\ entries[k].progress
                 \/ (last.op \in {"cache", "failure"} /\ last.key = k)

\* C9 happens: a subscribe met an entry in progress that was invalidated
\* since its fetch was spawned
NoFetchWhileInProgressWitness ==
    /\ last.op = "subscribe"
    /\ last.key \in DOMAIN prev
    /\ entries[last.key].progress
    /\ \E t \in BagToSet(tasks) : t.key = last.key /\ t.invalidated

\* the last operation broadcasts the entry of `key`
Broadcasts(key) ==
    \/ last.op \in {"cache", "failure"} /\ last.key = key
    \/ Affected(key)

\* C10: unsubscribe removes the handle from the entry's list and nothing
\* else, and changes nothing when the handle is not subscribed or the key
\* has no entry; a handle enters or leaves a list only by its own subscribe
\* or unsubscribe of that key; and every broadcast of an entry goes to the
\* handles in its list, each once, and to no other.
UnsubscribeStopsDelivery ==
    /\ last.op = "unsubscribe"
         => IF last.key \in DOMAIN prev
               /\ last.who \in Range(prev[last.key].subscriptions)
            THEN /\ DOMAIN entries = DOMAIN prev
                 /\ \A k \in DOMAIN prev \ {last.key} : entries[k] = prev[k]
                 /\ Range(entries[last.key].subscriptions)
                      = Range(prev[last.key].subscriptions) \ {last.who}
                 /\ [entries[last.key] EXCEPT !.subscriptions = <<>>]
                      = [prev[last.key] EXCEPT !.subscriptions = <<>>]
            ELSE entries = prev
    /\ \A k \in DOMAIN entries, s \in Subs :
         LET now == s \in Range(entries[k].subscriptions)
             was == k \in DOMAIN prev /\ s \in Range(prev[k].subscriptions)
         IN  now # was
             => /\ last.key = k /\ last.who = s
                /\ last.op = IF now THEN "subscribe" ELSE "unsubscribe"
    /\ \A k \in DOMAIN entries :
         IF Broadcasts(k)
         THEN BroadcastTo(k, entries[k].subscriptions, entries[k].value)
         ELSE BroadcastOf(k) = <<>>

\* C10 happens: handle 1 unsubscribed from a key that handle 2 stays
\* subscribed to, with a fetch outstanding whose completion will broadcast
UnsubscribeWitness ==
    /\ last.op = "unsubscribe"
    /\ last.who = 1
    /\ last.key \in DOMAIN prev
    /\ prev[last.key].subscriptions = <<1, 2>>
    /\ entries[last.key].subscriptions = <<2>>
    /\ Outstanding(last.key) = 1


\* C11: an entry is never removed: every key that had an entry before an
\* operation has one after it, also when its last subscriber unsubscribes.
EntriesNeverRemoved == DOMAIN prev \subseteq DOMAIN entries

\* C11 happens: the last subscriber of an entry unsubscribed
EntriesNeverRemovedWitness ==
    /\ last.op = "unsubscribe"
    /\ last.key \in DOMAIN prev
    /\ prev[last.key].subscriptions = <<last.who>>
    /\ entries[last.key].subscriptions = <<>>

\* C12: a failure leaves the payload and the validity of the entry as they
\* were, clears progress, sets a delay that is new, keeps the subscribers,
\* and broadcasts the unchanged value to every subscriber.
FailureKeepsValue ==
    last.op = "failure"
    => /\ entries[last.key].value = prev[last.key].value
       /\ ~entries[last.key].progress
       /\ entries[last.key].subscriptions = prev[last.key].subscriptions
       /\ entries[last.key].delay # None
       /\ prev[last.key].delay # None
            => DurationLess(prev[last.key].delay[1], entries[last.key].delay[1])
       /\ \A d \in Range(sent) : d.by = "broadcast" /\ d.key = last.key
       /\ BroadcastTo(last.key, prev[last.key].subscriptions,
                      prev[last.key].value)

\* C12 happens: a failure met a subscribed entry that holds a payload
FailureKeepsValueWitness ==
    /\ last.op = "failure"
    /\ prev[last.key].value.data # None
    /\ prev[last.key].subscriptions # <<>>
    /\ Len(sent) = Len(prev[last.key].subscriptions)


\* C16: when subscribe starts a refetch for an existing entry whose value is
\* invalid and whose progress flag is false, the flag is true from that
\* moment until the fetch completes: an existing entry with a fetch
\* outstanding is in progress.
RefetchIsPending ==
    \A key \in DOMAIN entries :
        (started[key] > 1 /\ Outstanding(key) > 0) => entries[key].progress

\* C17: subscribe to a key that has an entry starts a fetch exactly when the
\* value was invalid and no fetch was in progress, and the task then sleeps
\* the entry's delay before it sends (it sends at once when there is none);
\* subscribe to a key without an entry creates the entry in progress, with
\* no payload, invalid, without a delay, and starts a task that sends at
\* once.
SubscribeFetches ==
    last.op = "subscribe"
    => IF last.key \in DOMAIN prev
       THEN /\ last.task # None
                <=> (~prev[last.key].value.valid /\ ~prev[last.key].progress)
            /\ last.task # None
                => /\ last.task[1].key = last.key
                   /\ last.task[1].delay = prev[last.key].delay
                   /\ last.task[1].phase
                        = (IF prev[last.key].delay = None
                           THEN "send" ELSE "sleep")
                   /\ last.task[1] \in TaskSet
                   /\ started[last.key] > Completed(last.key)
       ELSE /\ entries[last.key].progress
            /\ entries[last.key].value = [data |-> None, valid |-> FALSE]
            /\ entries[last.key].delay = None
            /\ entries[last.key].subscriptions = <<last.who>>
            /\ last.task # None
            /\ last.task[1].key = last.key
            /\ last.task[1].delay = None
            /\ last.task[1].phase = "send"
            /\ last.task[1] \in TaskSet

\* C17 happens: a subscribe refetched an entry that has a retry delay
SubscribeFetchesWitness ==
    /\ last.op = "subscribe"
    /\ last.key \in DOMAIN prev
    /\ last.task # None
    /\ last.task[1].delay # None

\* C18: no subscriber list holds a handle twice, and every broadcast
\* delivers once to each subscribed handle; the only subscriber of a key
\* never seen before is notified exactly once when the first fetch succeeds.
SubscribedOnce ==
    /\ \A key \in DOMAIN entries :
          Cardinality(Range(entries[key].subscriptions))
              = Len(entries[key].subscriptions)
    /\ \A key \in DOMAIN entries : \A setter \in Subs :
          Broadcasts(key)
          => Cardinality({i \in DOMAIN sent : sent[i].key = key
                                              /\ sent[i].to = setter})
               = (IF setter \in Range(entries[key].subscriptions)
                  THEN 1 ELSE 0)
    /\ (last.op = "cache" /\ started[last.key] = 1
        /\ Cardinality(Range(prev[last.key].subscriptions)) = 1)
       => Len(sent) = 1

\* C18 happens: a handle that is in the list of the entry subscribed again
SubscribedOnceWitness ==
    /\ last.op = "subscribe"
    /\ last.key \in DOMAIN prev
    /\ last.who \in Range(prev[last.key].subscriptions)
    /\ entries[last.key].subscriptions = prev[last.key].subscriptions

\* C20: an entry whose value is valid has no retry delay
ValidHasNoDelay ==
    \A key \in DOMAIN entries :
        entries[key].value.valid => entries[key].delay = None


\* C19: a fetch is started by subscribe only: every step that starts a
\* fetch for a key is a subscribe of that key, and an entry that is invalid,
\* not in progress and without a fetch outstanding stays unfetched and
\* invalid over every step that is not a subscribe of its key.
FetchOnlyBySubscribe ==
    [][\A key \in Keys :
         /\ (started'[key] # started[key]
             \/ Outstanding(key)' > Outstanding(key))
            => (last'.op = "subscribe" /\ last'.key = key
                /\ last'.task # None)
         /\ (/\ key \in DOMAIN entries
             /\ ~entries[key].value.valid
             /\ ~entries[key].progress
             /\ Outstanding(key) = 0
             /\ ~(last'.op = "subscribe" /\ last'.key = key))
            => (/\ Outstanding(key)' = 0
                /\ ~entries'[key].value.valid
                /\ ~entries'[key].progress)]_vars

\* C19 happens: a failure left an entry invalid, not in progress and
\* without a fetch outstanding
FetchOnlyBySubscribeWitness ==
    /\ last.op = "failure"
    /\ last.key \in DOMAIN entries
    /\ ~entries[last.key].value.valid
    /\ ~entries[last.key].progress
    /\ Outstanding(last.key) = 0


\* C13: when every send returns and the spawned tasks are run, an entry
\* whose progress flag is true reaches a state where the flag is false.
InProgressEnds ==
    \A key \in Keys :
        (key \in DOMAIN entries /\ entries[key].progress)
        ~> (key \in DOMAIN entries /\ ~entries[key].progress)

\* C13 happens: the completion of a fetch cleared the progress flag
InProgressEndsWitness ==
    /\ last.op \in {"cache", "failure"}
    /\ last.key \in DOMAIN prev
    /\ prev[last.key].progress
    /\ ~entries[last.key].progress


\* the ordering with its operands exchanged
Reversed(ordering) ==
    IF ordering = "Less" THEN "Greater"
    ELSE IF ordering = "Greater" THEN "Less" ELSE "Equal"

\* C14: cmp on type-erased keys is a total order over the keys of all
\* concrete types: a.cmp(b) is the reverse of b.cmp(a), it is transitive,
\* it is Equal exactly when a == b, keys of different types are ordered as
\* their type identifiers, keys of one type by the type's own ordering, and
\* partial_cmp agrees with it.
CompareTotalOrder ==
    probe.cmp # None
    => LET c == probe.cmp[1]
           LessEq(o) == o \in {"Less", "Equal"}
       IN  /\ c.ab = Reversed(c.ba)
           /\ (c.ab = "Less" /\ LessEq(c.bc)) => c.ac = "Less"
           /\ (LessEq(c.ab) /\ c.bc = "Less") => c.ac = "Less"
           /\ (c.ab = "Equal" /\ c.bc = "Equal") => c.ac = "Equal"
           /\ probe.eq # None
                => /\ c.ab = "Equal" <=> probe.eq[1].ab
                   /\ c.bc = "Equal" <=> probe.eq[1].bc
                   /\ c.ac = "Equal" <=> probe.eq[1].ac
           /\ probe.a.type # probe.b.type
                => c.ab = Cmp(TypeIdOf(probe.a.type), TypeIdOf(probe.b.type))
           /\ probe.a.type = probe.b.type
                => c.ab = TypeCmp(probe.a.type, probe.a.value, probe.b.value)
           /\ probe.partial # None => probe.partial[1] = Some(c.ab)

\* C14 happens: three keys of two types, the two of one type different,
\* were compared in ascending order
CompareTotalOrderWitness ==
    /\ probe.cmp # None
    /\ probe.eq # None
    /\ probe.partial # None
    /\ probe.a.type # probe.b.type
    /\ probe.b.type = probe.c.type
    /\ probe.cmp[1].ab = "Less"
    /\ probe.cmp[1].bc = "Less"

====
